---- MODULE Spec2Model ----
(***************************************************************************)
(* Model of testbed/chaos/chaos_runner.py: the chaos runner's main task    *)
(* (run_chaos_test), the metrics collector task, the per-fault expiry      *)
(* tasks, the network-fault cleanup tasks and the stabilization tasks,     *)
(* all scheduled by one asyncio event loop.                                *)
(*                                                                         *)
(* Time is in seconds since the start of the run.  A task sleeping in      *)
(* asyncio.sleep(d) becomes ready exactly d seconds later; the clock moves *)
(* only when no task is ready (Advance), and tasks that are ready at the   *)
(* same instant run in any order.  A task runs atomically from one         *)
(* suspension point (asyncio.sleep, an HTTP request) to the next.          *)
(***************************************************************************)
EXTENDS Integers, Sequences, FiniteSets, TLC

VARIABLES
    config,              \* self.config: the configuration of the run
    now,                 \* the clock: datetime.now(), seconds since run start
    pc,                  \* position of the main task (run_chaos_test)
    main_wake,           \* when the main task's current asyncio.sleep ends
    loop_start,          \* start_time of the loop the main task is in
    sweep,               \* _cleanup: the snapshot names not yet swept
    pending_exc,         \* an exception is being propagated through finally
    k6,                  \* self.k6_process: "none", "running", "exited"
    collector,           \* self.metrics_collector task: [pc, wake]
    active_faults,       \* self.active_faults: the names, in insertion order
    timers,              \* pending _cleanup_fault_after_duration tasks
    net_timers,          \* pending _cleanup_network_fault_after_duration tasks
    qdisc,               \* host state: a netem qdisc is installed on lo
    fault_gauge,         \* FAULT_ACTIVE gauge, per fault type
    slo_violations,      \* self.slo_violations
    health_score,        \* self.health_score
    backpressure_active, \* self.backpressure_active
    stab_timers,         \* pending _wait_for_stabilization tasks
    bp_counter,          \* BACKPRESSURE_ACTIVATIONS, per action label
    reduce_signals,      \* SIGUSR1 signals sent to the k6 process
    results,             \* what run_chaos_test returns: the TestResult
    netem_added,         \* host history: a tc qdisc add has succeeded
    last                 \* the step the event loop ran last

vars == <<config, now, pc, main_wake, loop_start, sweep, pending_exc, k6, collector,
          active_faults, timers, net_timers, qdisc, fault_gauge,
          slo_violations, health_score, backpressure_active, stab_timers,
          bp_counter, reduce_signals, results, netem_added, last>>

(***************************************************************************)
(* Bounds of the model.                                                    *)
(***************************************************************************)
\* duration_minutes of the short and of the long configuration
ShortMinutes == 1
LongMinutes == 5
\* the metrics backend reports at most this many violations in a run,
\* all of them within this many consecutive polls of the collector
MaxViolations == 3
BurstPolls == 1
\* with the configuration whose gates are mostly critical, violations are
\* reported within this many consecutive polls, in any number
DegradedPolls == 1
\* the same with the configuration of one fault and three gates
RepeatPolls == 2
\* the stabilization check is applied to records that are up to this many
\* days, and on top of that up to this many collection intervals more than
\* a cooldown, old
RecencyDays == 1
RecencyPolls == 30

(***************************************************************************)
(* Program constants.                                                      *)
(***************************************************************************)
SchedulerInterval == 30
CollectInterval == 10
ErrorInterval == 30
CompletionPoll == 10
Cooldown == 60
Lookback == 300
SecondsPerDay == 86400
InitialHealth == 100
CriticalPenalty == 20
OtherPenalty == 5

Range(s) == {s[i] : i \in DOMAIN s}

Min(S) == CHOOSE x \in S : \A y \in S : x <= y

Max2(a, b) == IF a >= b THEN a ELSE b

(***************************************************************************)
(* The configurations under test (load_chaos_config).  probability is in   *)
(* percent; thresholds and metric values are integers.                     *)
(***************************************************************************)
AllFaults ==
    << [name |-> "cpu", fault_type |-> "cpu_hog",
        duration_seconds |-> 45, probability |-> 100],
       [name |-> "mem", fault_type |-> "memory_leak",
        duration_seconds |-> 45, probability |-> 50],
       [name |-> "net", fault_type |-> "network_loss",
        duration_seconds |-> 100, probability |-> 50] >>

AllSloGates ==
    << [name |-> "p95_critical", metric |-> "response_time_p95",
        threshold |-> 2, operator |-> ">", severity |-> "critical",
        backpressure_trigger |-> TRUE],
       [name |-> "p95_warning", metric |-> "response_time_p95",
        threshold |-> 2, operator |-> ">=", severity |-> "warning",
        backpressure_trigger |-> FALSE],
       [name |-> "error_rate", metric |-> "error_rate",
        threshold |-> 2, operator |-> ">=", severity |-> "warning",
        backpressure_trigger |-> TRUE] >>

\* gates that take the health score below its floor within one poll
CriticalSloGates ==
    << [name |-> "p95_high", metric |-> "response_time_p95",
        threshold |-> 2, operator |-> ">", severity |-> "critical",
        backpressure_trigger |-> TRUE],
       [name |-> "p95_elevated", metric |-> "response_time_p95",
        threshold |-> 2, operator |-> ">=", severity |-> "critical",
        backpressure_trigger |-> FALSE],
       [name |-> "p95_any", metric |-> "response_time_p95",
        threshold |-> 1, operator |-> ">=", severity |-> "critical",
        backpressure_trigger |-> FALSE],
       [name |-> "errors_high", metric |-> "error_rate",
        threshold |-> 2, operator |-> ">", severity |-> "critical",
        backpressure_trigger |-> TRUE],
       [name |-> "errors_elevated", metric |-> "error_rate",
        threshold |-> 2, operator |-> ">=", severity |-> "critical",
        backpressure_trigger |-> FALSE],
       [name |-> "errors_any", metric |-> "error_rate",
        threshold |-> 1, operator |-> ">=", severity |-> "warning",
        backpressure_trigger |-> FALSE] >>

\* three faults and three gates, for a short run
ShortConfig ==
    [duration_minutes |-> ShortMinutes, faults |-> AllFaults,
     slo_gates |-> AllSloGates]

\* one fault and one gate, for a long run
LongConfig ==
    [duration_minutes |-> LongMinutes,
     faults |-> SubSeq(AllFaults, 3, 3),
     slo_gates |-> SubSeq(AllSloGates, 1, 1)]

\* one fault and the critical gates, for a run of one minute
DegradedConfig ==
    [duration_minutes |-> 1,
     faults |-> SubSeq(AllFaults, 3, 3),
     slo_gates |-> CriticalSloGates]

\* one fault and three gates, for a run of one minute
RepeatConfig ==
    [duration_minutes |-> 1,
     faults |-> SubSeq(AllFaults, 3, 3),
     slo_gates |-> AllSloGates]

\* a configuration file whose fault definitions are out of range: a
\* duration of 0 seconds, a probability of 1.5
InvalidFaults ==
    << [name |-> "cpu", fault_type |-> "cpu_hog",
        duration_seconds |-> 0, probability |-> 100],
       [name |-> "net", fault_type |-> "network_loss",
        duration_seconds |-> 100, probability |-> 150] >>

\* load_chaos_config builds the ChaosTest from the file's values as they
\* are
InvalidConfig ==
    [duration_minutes |-> 1,
     faults |-> InvalidFaults,
     slo_gates |-> SubSeq(AllSloGates, 1, 1)]

\* two faults of one type, of different durations, and a network fault,
\* for a run of one minute
SharedTypeFaults ==
    << [name |-> "cpu", fault_type |-> "cpu_hog",
        duration_seconds |-> 45, probability |-> 100],
       [name |-> "cpu_burst", fault_type |-> "cpu_hog",
        duration_seconds |-> 20, probability |-> 50],
       [name |-> "net", fault_type |-> "network_loss",
        duration_seconds |-> 100, probability |-> 50] >>

SharedTypeConfig ==
    [duration_minutes |-> 1,
     faults |-> SharedTypeFaults,
     slo_gates |-> SubSeq(AllSloGates, 1, 1)]

\* no fault and three gates, for a run of several days
DaysLongConfig ==
    [duration_minutes |-> (RecencyDays + 1) * (SecondsPerDay \div 60),
     faults |-> <<>>,
     slo_gates |-> AllSloGates]

Faults == config.faults
SloGates == config.slo_gates
FaultNames == {Faults[i].name : i \in DOMAIN Faults}
FaultTypes == {Faults[i].fault_type : i \in DOMAIN Faults}
FaultByName(n) == CHOOSE f \in Range(Faults) : f.name = n

\* random.random() scaled to percent: a sample of [0, 100)
RandomSamples == {0, 99}
\* what a type-specific applier can do: return, raise, or (network_loss
\* only) have tc exit with an error, which the applier swallows
ApplierOutcomes == {"ok", "raise", "tc_error"}
\* what the tc qdisc del of a network fault's cleanup task can do: succeed,
\* or exit with an error, which the task catches
RevertOutcomes == {"ok", "tc_error"}
\* what a Prometheus query can yield: an exception, a non-200 or empty
\* answer, or a value
MetricValues == {1, 2, 3}
QueryResults ==
    {[kind |-> "error", value |-> 0], [kind |-> "nodata", value |-> 0]}
    \cup [kind : {"value"}, value : MetricValues]

\* what the read of BACKPRESSURE_ACTIVATIONS._value can do.  _value is a
\* private attribute of the client library's Counter: a labelled Counter
\* keeps its values in its children and the read raises AttributeError; a
\* library that kept a vector of them there would return their sum
CounterReadOutcomes == {"attribute_error", "sum"}

\* the positions of the main task after run_chaos_test has ended: it has
\* returned its results, has raised what its loops or its start raised,
\* has raised out of _cleanup, or has raised out of _generate_test_results
Terminal == {"done", "raised", "cleanup_failed", "results_failed"}


(***************************************************************************)
(* The registry: self.active_faults, a dict, kept as its keys in           *)
(* insertion order.                                                        *)
(***************************************************************************)
IsActive(registry, name) == name \in Range(registry)

RegistryRemove(registry, name) == SelectSeq(registry, LAMBDA n : n # name)

\* _cleanup_fault_after_duration after its sleep, on the registry and the
\* gauge
CleanupFaultUnlessBackpressure(registry, gauge, name) ==
    IF IsActive(registry, name) /\ ~backpressure_active
    THEN [active_faults |-> RegistryRemove(registry, name),
          fault_gauge |-> [gauge EXCEPT ![FaultByName(name).fault_type] = 0]]
    ELSE [active_faults |-> registry, fault_gauge |-> gauge]

CleanupFaultIfReverted(registry, gauge, name) ==
    IF /\ IsActive(registry, name)
       /\ ~(FaultByName(name).fault_type = "network_loss" /\ qdisc)
    THEN [active_faults |-> RegistryRemove(registry, name),
          fault_gauge |-> [gauge EXCEPT ![FaultByName(name).fault_type] = 0]]
    ELSE [active_faults |-> registry, fault_gauge |-> gauge]

CleanupFault(registry, gauge, name) ==
    IF IsActive(registry, name)
    THEN [active_faults |-> RegistryRemove(registry, name),
          fault_gauge |-> [gauge EXCEPT ![FaultByName(name).fault_type] = 0]]
    ELSE [active_faults |-> registry, fault_gauge |-> gauge]

(***************************************************************************)
(* _inject_fault with its applier.  st is the part of the state a          *)
(* scheduler tick works on; outcome is what the applier does.              *)
(***************************************************************************)
\* a network_loss applier: tc qdisc add fails when a root qdisc is installed
TcAddOutcome(st, outcome) ==
    IF st.qdisc /\ outcome = "ok" THEN "tc_error" ELSE outcome

\* the applier of the fault's type: the outcome as _inject_fault sees it
\* ("raise": the exception reaches _inject_fault's handler) and the host
\* and task state it leaves
ApplyFault(st, fault, outcome) ==
    IF fault.fault_type = "network_loss"
    THEN LET o == TcAddOutcome(st, outcome) IN
         IF o = "ok"
         THEN [st EXCEPT !.qdisc = TRUE,
                         !.net_timers = @ \cup {now + fault.duration_seconds},
                         !.raised = FALSE]
         ELSE IF o = "tc_error"
         THEN [st EXCEPT !.raised = FALSE,
                         !.failed = @ \cup {fault.name}]
         ELSE [st EXCEPT !.raised = TRUE,
                         !.failed = @ \cup {fault.name}]
    ELSE IF outcome = "raise"
         THEN [st EXCEPT !.raised = TRUE, !.failed = @ \cup {fault.name}]
         ELSE [st EXCEPT !.raised = FALSE]

InjectFaultWithoutExpiry(st, fault, outcome) ==
    LET a == ApplyFault(st, fault, outcome) IN
    IF a.raised
    THEN a
    ELSE [a EXCEPT
            !.active_faults =
                IF IsActive(@, fault.name) THEN @ ELSE Append(@, fault.name),
            !.fault_gauge = [@ EXCEPT ![fault.fault_type] = 1]]

InjectFault(st, fault, outcome) ==
    LET a == ApplyFault(st, fault, outcome) IN
    IF a.raised
    THEN a
    ELSE [a EXCEPT
            !.active_faults =
                IF IsActive(@, fault.name) THEN @ ELSE Append(@, fault.name),
            !.fault_gauge = [@ EXCEPT ![fault.fault_type] = 1],
            !.timers = @ \cup {[name |-> fault.name,
                                at |-> now + fault.duration_seconds]}]

\* the test of _inject_chaos_faults on one fault
ShouldInjectIgnoringRegistry(st, fault, sample) ==
    sample < fault.probability

ShouldInject(st, fault, sample) ==
    /\ sample < fault.probability
    /\ ~IsActive(st.active_faults, fault.name)

\* _inject_chaos_faults from the i-th fault of config.faults on
RECURSIVE InjectChaosFaults(_, _, _, _)
InjectChaosFaults(i, st, samples, outcomes) ==
    IF i > Len(Faults)
    THEN st
    ELSE LET fault == Faults[i] IN
         InjectChaosFaults(
             i + 1,
             IF ShouldInject(st, fault, samples[fault.name])
             THEN InjectFault(st, fault, outcomes[fault.name])
             ELSE st,
             samples, outcomes)

\* the body of one iteration of _run_chaos_loop
ChaosLoopBodyIgnoringBackpressure(st, samples, outcomes) ==
    InjectChaosFaults(1, st, samples, outcomes)

ChaosLoopBody(st, samples, outcomes) ==
    IF ~backpressure_active
    THEN InjectChaosFaults(1, st, samples, outcomes)
    ELSE st

TickState ==
    [active_faults |-> active_faults, timers |-> timers,
     net_timers |-> net_timers, qdisc |-> qdisc,
     fault_gauge |-> fault_gauge, raised |-> FALSE, failed |-> {}]

(***************************************************************************)
(* The SLO evaluator: _check_slo_gates and what it calls.  ev is the part  *)
(* of the state an evaluation works on.                                    *)
(***************************************************************************)
\* _evaluate_slo_violation: TRUE for "violated", FALSE for None
EvaluateSloViolation(slo, value) ==
    IF slo.operator = ">" THEN value > slo.threshold
    ELSE IF slo.operator = "<" THEN value < slo.threshold
    ELSE IF slo.operator = ">=" THEN value >= slo.threshold
    ELSE IF slo.operator = "<=" THEN value <= slo.threshold
    ELSE IF slo.operator = "==" THEN value = slo.threshold
    ELSE FALSE

\* the health score after one violation of the given severity
HealthAfterClampOnCritical(score, severity) ==
    IF severity = "critical"
    THEN Max2(0, score - CriticalPenalty)
    ELSE score - OtherPenalty

HealthAfterUnclamped(score, severity) ==
    IF severity = "critical"
    THEN score - CriticalPenalty
    ELSE score - OtherPenalty

HealthAfter(score, severity) ==
    IF severity = "critical"
    THEN Max2(0, score - CriticalPenalty)
    ELSE Max2(0, score - OtherPenalty)

RecordSloViolationFlatPenalty(ev, slo, value) ==
    [ev EXCEPT
       !.slo_violations =
           Append(@, [timestamp |-> now, slo_name |-> slo.name]),
       !.health_score = HealthAfter(@, "warning")]

RecordSloViolation(ev, slo, value) ==
    [ev EXCEPT
       !.slo_violations =
           Append(@, [timestamp |-> now, slo_name |-> slo.name]),
       !.health_score = HealthAfter(@, slo.severity)]

\* _apply_backpressure_actions: signal k6 if it runs, start the
\* stabilization task
ApplyBackpressureActions(ev) ==
    [ev EXCEPT
       !.reduce_signals = IF k6 = "running" THEN @ + 1 ELSE @,
       !.stab_timers = @ \cup {now + Cooldown}]

ActivateBackpressureAtEveryTrigger(ev, slo) ==
    ApplyBackpressureActions(
        [ev EXCEPT !.backpressure_active = TRUE,
                   !.bp_counter.activated = @ + 1])

ActivateBackpressure(ev, slo) ==
    IF ~ev.backpressure_active
    THEN ApplyBackpressureActions(
             [ev EXCEPT !.backpressure_active = TRUE,
                        !.bp_counter.activated = @ + 1])
    ELSE ev

\* _check_slo_gates from the i-th gate of config.slo_gates on
RECURSIVE CheckSloGatesOncePerGate(_, _, _, _)
CheckSloGatesOncePerGate(i, ev, metric_name, current_value) ==
    IF i > Len(SloGates)
    THEN ev
    ELSE LET slo == SloGates[i]
             hit == /\ slo.metric = metric_name
                    /\ EvaluateSloViolation(slo, current_value)
                    /\ \A k \in DOMAIN ev.slo_violations :
                          ev.slo_violations[k].slo_name # slo.name
             rec == RecordSloViolation(ev, slo, current_value)
         IN  CheckSloGatesOncePerGate(
                 i + 1,
                 IF ~hit THEN ev
                 ELSE IF slo.backpressure_trigger
                      THEN ActivateBackpressure(rec, slo)
                      ELSE rec,
                 metric_name, current_value)

RECURSIVE CheckSloGates(_, _, _, _)
CheckSloGates(i, ev, metric_name, current_value) ==
    IF i > Len(SloGates)
    THEN ev
    ELSE LET slo == SloGates[i]
             hit == /\ slo.metric = metric_name
                    /\ EvaluateSloViolation(slo, current_value)
             rec == RecordSloViolation(ev, slo, current_value)
         IN  CheckSloGates(
                 i + 1,
                 IF ~hit THEN ev
                 ELSE IF slo.backpressure_trigger
                      THEN ActivateBackpressure(rec, slo)
                      ELSE rec,
                 metric_name, current_value)

EvalState ==
    [slo_violations |-> slo_violations, health_score |-> health_score,
     backpressure_active |-> backpressure_active,
     stab_timers |-> stab_timers, bp_counter |-> bp_counter,
     reduce_signals |-> reduce_signals]

\* timedelta.seconds of a non-negative difference: the days are dropped
TimedeltaSeconds(delta) == delta % SecondsPerDay

\* _check_slo_stabilization
CheckSloStabilizationCooldownWindow(violations) ==
    LET recent_violations ==
            {i \in DOMAIN violations :
                TimedeltaSeconds(now - violations[i].timestamp) < Cooldown}
    IN  Cardinality(recent_violations) = 0

CheckSloStabilization(violations) ==
    LET recent_violations ==
            {i \in DOMAIN violations :
                TimedeltaSeconds(now - violations[i].timestamp) < Lookback}
    IN  Cardinality(recent_violations) = 0

(***************************************************************************)
(* _generate_test_results.                                                 *)
(***************************************************************************)
\* no TestResult
NoResults ==
    [produced |-> FALSE, total_faults_injected |-> 0, slo_violations |-> 0,
     backpressure_activations |-> 0, system_health_score |-> 0]

\* BACKPRESSURE_ACTIVATIONS._value.sum(), where the read succeeds
CounterValueSum(counter) == counter.activated + counter.deactivated

\* the TestResult assembled from the registry, the violation list, the
\* counter and the health score as they are when the sweep has ended
GenerateTestResults(registry, outcome) ==
    IF outcome = "attribute_error"
    THEN NoResults
    ELSE LET fault_results == registry
             slo_results == slo_violations
         IN  [produced |-> TRUE,
              total_faults_injected |-> Len(fault_results),
              slo_violations |-> Len(slo_results),
              backpressure_activations |-> CounterValueSum(bp_counter),
              system_health_score |-> health_score]

(***************************************************************************)
(* The initial state: ChaosRunner.__init__, before run_chaos_test.         *)
(***************************************************************************)
\* no answer to a query
NoAnswer == [kind |-> "none", value |-> 0]

Step(op, name, failed) ==
    [op |-> op, name |-> name, failed |-> failed, result |-> NoAnswer]

\* the step of the collector that got result for metric_name
Collected(metric_name, result) ==
    [op |-> "collect", name |-> metric_name, failed |-> {},
     result |-> result]

InitWith(cfg) ==
    /\ config = cfg
    /\ now = 0
    /\ pc = "start"
    /\ main_wake = 0
    /\ loop_start = 0
    /\ sweep = <<>>
    /\ pending_exc = FALSE
    /\ k6 = "none"
    /\ collector = [pc |-> "none", wake |-> 0]
    /\ active_faults = <<>>
    /\ timers = {}
    /\ net_timers = {}
    /\ qdisc = FALSE
    /\ fault_gauge = [t \in FaultTypes |-> 0]
    /\ slo_violations = <<>>
    /\ health_score = InitialHealth
    /\ backpressure_active = FALSE
    /\ stab_timers = {}
    /\ bp_counter = [activated |-> 0, deactivated |-> 0]
    /\ reduce_signals = 0
    /\ results = NoResults
    /\ netem_added = FALSE
    /\ last = Step("init", "", {})

Init == InitWith(ShortConfig)

LongInit == InitWith(LongConfig)

DegradedInit == InitWith(DegradedConfig)

RepeatInit == InitWith(RepeatConfig)

InvalidInit == InitWith(InvalidConfig)

SharedTypeInit == InitWith(SharedTypeConfig)

\* the ages of the violation records the stabilization check is applied to
RecordAges ==
    {d * SecondsPerDay + Cooldown + k * CollectInterval :
        d \in 0..RecencyDays, k \in 1..RecencyPolls}

\* the least time of a scheduler tick that is not before time t
NextTickAt(t) ==
    ((t + SchedulerInterval - 1) \div SchedulerInterval) * SchedulerInterval

\* a run of several days at the instant its stabilization check is due,
\* the clock having just moved there.  At its first collection, at time 0,
\* the response time violated the gate without backpressure_trigger; one
\* cooldown ago the error rate violated its gate, which activated
\* backpressure and started the check
RecencyInit ==
    \E age \in RecordAges :
        /\ config = DaysLongConfig
        /\ now = age
        /\ pc = "chaos"
        /\ main_wake = NextTickAt(age)
        /\ loop_start = 0
        /\ sweep = <<>>
        /\ pending_exc = FALSE
        /\ k6 = "running"
        /\ collector = [pc |-> "sleeping", wake |-> age]
        /\ active_faults = <<>>
        /\ timers = {}
        /\ net_timers = {}
        /\ qdisc = FALSE
        /\ fault_gauge = [t \in FaultTypes |-> 0]
        /\ slo_violations =
               << [timestamp |-> 0, slo_name |-> "p95_warning"],
                  [timestamp |-> age - Cooldown, slo_name |-> "error_rate"] >>
        /\ health_score =
               HealthAfter(HealthAfter(InitialHealth, "warning"), "warning")
        /\ backpressure_active = TRUE
        /\ stab_timers = {age}
        /\ bp_counter = [activated |-> 1, deactivated |-> 0]
        /\ reduce_signals = 1
        /\ results = NoResults
        /\ netem_added = FALSE
        /\ last = Step("advance", "", {})

\* timedelta(minutes=self.config.duration_minutes), in seconds
TestDuration == config.duration_minutes * 60

\* the applier outcomes a fault's type allows
OutcomesOf(fault) ==
    IF fault.fault_type = "network_loss"
    THEN ApplierOutcomes
    ELSE ApplierOutcomes \ {"tc_error"}

\* the samples and the applier outcomes of one scheduler tick; an applier
\* that the tick does not call has no outcome to choose, and a tick under
\* backpressure draws no sample
TickChoices ==
    {c \in [samples : [FaultNames -> RandomSamples],
            outcomes : [FaultNames -> ApplierOutcomes]] :
        \A n \in FaultNames :
            /\ c.outcomes[n] \in OutcomesOf(FaultByName(n))
            /\ ~ShouldInject([active_faults |-> active_faults],
                             FaultByName(n), c.samples[n])
                   => c.outcomes[n] = "ok"
            /\ backpressure_active => c.samples[n] = 0}

(***************************************************************************)
(* _cleanup.  The sweep's for-loop from the snapshot names in rest on, up  *)
(* to its next suspension: the lookup self.active_faults[fault_name] and   *)
(* the sleep of _cleanup_fault_after_duration, or the end of _cleanup and  *)
(* of run_chaos_test, which re-raises a pending exception or goes on to    *)
(* _generate_test_results.  When the main task ends, asyncio.run cancels   *)
(* every task that is still pending.                                       *)
(***************************************************************************)
SweepFrom(rest, registry, gauge, exc) ==
    /\ active_faults' = registry
    /\ fault_gauge' = gauge
    /\ IF rest = <<>>
       THEN /\ IF exc
               THEN /\ pc' = "raised"
                    /\ results' = results
               ELSE \E outcome \in CounterReadOutcomes :
                      /\ results' = GenerateTestResults(registry, outcome)
                      /\ pc' = IF results'.produced
                               THEN "done"
                               ELSE "results_failed"
            /\ qdisc' = FALSE
            /\ sweep' = <<>>
            /\ main_wake' = main_wake
            /\ timers' = {}
            /\ net_timers' = {}
            /\ stab_timers' = {}
       ELSE IF ~IsActive(registry, Head(rest))
       THEN /\ pc' = "cleanup_failed"
            /\ results' = results
            /\ qdisc' = qdisc
            /\ sweep' = rest
            /\ main_wake' = main_wake
            /\ timers' = {}
            /\ net_timers' = {}
            /\ stab_timers' = {}
       ELSE /\ pc' = "sweep"
            /\ sweep' = rest
            /\ main_wake' = now + FaultByName(Head(rest)).duration_seconds
            /\ UNCHANGED <<qdisc, timers, net_timers, stab_timers, results>>

\* the finally clause of run_chaos_test: _cleanup up to its first suspension
CleanupWithoutCancel(exc) ==
    /\ pending_exc' = exc
    /\ k6' = IF k6 = "running" THEN "exited" ELSE k6
    /\ collector' = collector
    /\ SweepFrom(active_faults, active_faults, fault_gauge, exc)

CleanupWithoutSweep(exc) ==
    /\ pending_exc' = exc
    /\ k6' = IF k6 = "running" THEN "exited" ELSE k6
    /\ collector' = IF collector.pc = "none"
                    THEN collector
                    ELSE [pc |-> "cancelled", wake |-> 0]
    /\ SweepFrom(<<>>, active_faults, fault_gauge, exc)

Cleanup(exc) ==
    /\ pending_exc' = exc
    /\ k6' = IF k6 = "running" THEN "exited" ELSE k6
    /\ collector' = IF collector.pc = "none"
                    THEN collector
                    ELSE [pc |-> "cancelled", wake |-> 0]
    /\ SweepFrom(active_faults, active_faults, fault_gauge, exc)

(***************************************************************************)
(* The event loop.                                                         *)
(***************************************************************************)
\* the deadlines of the sleeping tasks
Deadlines ==
    (IF pc \in {"chaos", "wait", "sweep"} THEN {main_wake} ELSE {})
    \cup (IF collector.pc = "sleeping" THEN {collector.wake} ELSE {})
    \cup {t.at : t \in timers}
    \cup net_timers
    \cup stab_timers

\* every task is suspended and none is ready to run
Idle ==
    /\ collector.pc # "query2"
    /\ \A d \in Deadlines : d > now

(***************************************************************************)
(* The main task.                                                          *)
(***************************************************************************)
\* run_chaos_test up to its first suspension: _start_k6_load, which may
\* raise, _start_metrics_collection and the first iteration of
\* _run_chaos_loop
StartRun ==
    /\ pc = "start"
    /\ \E started \in BOOLEAN :
         IF started
         THEN \E c \in TickChoices :
                LET st == ChaosLoopBody(TickState, c.samples, c.outcomes) IN
                /\ k6' = "running"
                /\ collector' = [pc |-> "sleeping", wake |-> now]
                /\ pc' = "chaos"
                /\ loop_start' = now
                /\ main_wake' = now + SchedulerInterval
                /\ active_faults' = st.active_faults
                /\ timers' = st.timers
                /\ net_timers' = st.net_timers
                /\ qdisc' = st.qdisc
                /\ fault_gauge' = st.fault_gauge
                /\ netem_added' = (netem_added \/ st.qdisc)
                /\ last' = Step("tick", "", st.failed)
                /\ UNCHANGED <<sweep, pending_exc, stab_timers, results>>
         ELSE /\ Cleanup(TRUE)
              /\ last' = Step("start_failed", "", {})
              /\ UNCHANGED <<loop_start, netem_added>>
    /\ UNCHANGED <<config, now, slo_violations, health_score, backpressure_active,
                   bp_counter, reduce_signals>>

\* one later iteration of _run_chaos_loop
SchedulerTick ==
    /\ pc = "chaos"
    /\ main_wake = now
    /\ now - loop_start < TestDuration
    /\ \E c \in TickChoices :
         LET st == ChaosLoopBody(TickState, c.samples, c.outcomes) IN
         /\ active_faults' = st.active_faults
         /\ timers' = st.timers
         /\ net_timers' = st.net_timers
         /\ qdisc' = st.qdisc
         /\ fault_gauge' = st.fault_gauge
         /\ netem_added' = (netem_added \/ st.qdisc)
         /\ last' = Step("tick", "", st.failed)
    /\ main_wake' = now + SchedulerInterval
    /\ UNCHANGED <<results,
                   config, now, pc, loop_start, sweep, pending_exc, k6, collector,
                   slo_violations, health_score, backpressure_active,
                   stab_timers, bp_counter, reduce_signals>>

\* _run_chaos_loop ends and _wait_for_completion starts its first sleep
ChaosLoopExit ==
    /\ pc = "chaos"
    /\ main_wake = now
    /\ ~(now - loop_start < TestDuration)
    /\ pc' = "wait"
    /\ loop_start' = now
    /\ main_wake' = now + CompletionPoll
    /\ last' = Step("loop_exit", "", {})
    /\ UNCHANGED <<results, netem_added,
                   config, now, sweep, pending_exc, k6, collector, active_faults,
                   timers, net_timers, qdisc, fault_gauge, slo_violations,
                   health_score, backpressure_active, stab_timers,
                   bp_counter, reduce_signals>>

\* _wait_for_completion wakes: it leaves when k6 has exited or the
\* duration has elapsed, and run_chaos_test goes on to _cleanup
WaitForCompletion ==
    /\ pc = "wait"
    /\ main_wake = now
    /\ IF k6 = "running" /\ now - loop_start < TestDuration
       THEN /\ main_wake' = now + CompletionPoll
            /\ UNCHANGED <<pc, sweep, pending_exc, k6, collector,
                           active_faults, timers, net_timers, qdisc,
                           fault_gauge, stab_timers, results>>
       ELSE Cleanup(FALSE)
    /\ last' = Step("wait", "", {})
    /\ UNCHANGED <<config, now, loop_start, netem_added,
                   slo_violations, health_score,
                   backpressure_active, bp_counter, reduce_signals>>

\* an exception or a cancellation reaches the main task while it is
\* suspended in one of its loops and the event loop is idle: the finally
\* clause runs
Interrupt ==
    /\ pc \in {"chaos", "wait"}
    /\ Idle
    /\ Cleanup(TRUE)
    /\ last' = Step("interrupt", "", {})
    /\ UNCHANGED <<config, now, loop_start, netem_added,
                   slo_violations, health_score,
                   backpressure_active, bp_counter, reduce_signals>>

\* the sweep wakes from _cleanup_fault_after_duration's sleep
SweepWake ==
    /\ pc = "sweep"
    /\ main_wake = now
    /\ LET cleaned == CleanupFault(active_faults, fault_gauge, Head(sweep))
       IN  SweepFrom(Tail(sweep), cleaned.active_faults,
                     cleaned.fault_gauge, pending_exc)
    /\ last' = Step("sweep", Head(sweep), {})
    /\ UNCHANGED <<config, now, loop_start, netem_added,
                   pending_exc, k6, collector,
                   slo_violations, health_score, backpressure_active,
                   bp_counter, reduce_signals>>

(***************************************************************************)
(* The tasks the main task and the collector create.                       *)
(***************************************************************************)
\* _cleanup_fault_after_duration, run as a task, wakes from its sleep
FaultExpiry ==
    /\ pc \notin Terminal
    /\ \E t \in timers :
         /\ t.at = now
         /\ timers' = timers \ {t}
         /\ LET cleaned == CleanupFault(active_faults, fault_gauge, t.name)
            IN  /\ active_faults' = cleaned.active_faults
                /\ fault_gauge' = cleaned.fault_gauge
         /\ last' = Step("expiry", t.name, {})
    /\ UNCHANGED <<results, netem_added,
                   config, now, pc, main_wake, loop_start, sweep, pending_exc, k6,
                   collector, net_timers, qdisc, slo_violations,
                   health_score, backpressure_active, stab_timers,
                   bp_counter, reduce_signals>>

\* tc qdisc del on the host: the qdisc is gone when the command succeeds
NetworkRevert(installed, outcome) ==
    IF outcome = "ok" THEN FALSE ELSE installed

\* _cleanup_network_fault_after_duration wakes: tc qdisc del
NetworkCleanup ==
    /\ pc \notin Terminal
    /\ \E d \in net_timers :
         /\ d = now
         /\ net_timers' = net_timers \ {d}
    /\ \E outcome \in RevertOutcomes :
         /\ qdisc' = NetworkRevert(qdisc, outcome)
         /\ last' = Step("net_cleanup", outcome, {})
    /\ UNCHANGED <<results, netem_added,
                   config, now, pc, main_wake, loop_start, sweep, pending_exc, k6,
                   collector, active_faults, timers, fault_gauge,
                   slo_violations, health_score, backpressure_active,
                   stab_timers, bp_counter, reduce_signals>>

\* _deactivate_backpressure
DeactivateBackpressure(ev) ==
    [ev EXCEPT !.backpressure_active = FALSE,
               !.bp_counter.deactivated = @ + 1]

\* _wait_for_stabilization after its sleep
WaitForStabilizationRetrying(ev) ==
    IF CheckSloStabilization(ev.slo_violations)
    THEN DeactivateBackpressure(ev)
    ELSE [ev EXCEPT !.stab_timers = @ \cup {now + Cooldown}]

WaitForStabilization(ev) ==
    IF CheckSloStabilization(ev.slo_violations)
    THEN DeactivateBackpressure(ev)
    ELSE ev

Stabilization ==
    /\ pc \notin Terminal
    /\ \E d \in stab_timers :
         /\ d = now
         /\ LET ev == WaitForStabilization(
                          [EvalState EXCEPT !.stab_timers = @ \ {d}])
            IN  /\ stab_timers' = ev.stab_timers
                /\ backpressure_active' = ev.backpressure_active
                /\ bp_counter' = ev.bp_counter
    /\ last' = Step("stabilization", "", {})
    /\ UNCHANGED <<results, netem_added,
                   config, now, pc, main_wake, loop_start, sweep, pending_exc, k6,
                   collector, active_faults, timers, net_timers, qdisc,
                   fault_gauge, slo_violations, health_score,
                   reduce_signals>>

(***************************************************************************)
(* The metrics collector task: _collect_metrics_loop.  Each of the two     *)
(* Prometheus queries of _collect_current_metrics is a suspension point.   *)
(***************************************************************************)
\* the bounds on what the metrics backend reports
WithinBounds(violations) ==
    LET polls == IF config = DegradedConfig THEN DegradedPolls
                 ELSE IF config = RepeatConfig THEN RepeatPolls
                 ELSE BurstPolls
    IN  /\ config \in {DegradedConfig, RepeatConfig}
              \/ Len(violations) <= MaxViolations
        /\ \A i \in DOMAIN violations :
              violations[i].timestamp - violations[1].timestamp
                  <= (polls - 1) * CollectInterval

\* the state after a query answered with result for metric_name
AfterQueryAnyViolationActivates(metric_name, result) ==
    IF result.kind = "value"
    THEN LET ev == CheckSloGates(1, EvalState, metric_name, result.value)
         IN  IF Len(ev.slo_violations) > Len(slo_violations)
             THEN ActivateBackpressure(ev, SloGates[1])
             ELSE ev
    ELSE EvalState

AfterQuery(metric_name, result) ==
    IF result.kind = "value"
    THEN CheckSloGates(1, EvalState, metric_name, result.value)
    ELSE EvalState

SetEvalState(ev) ==
    /\ slo_violations' = ev.slo_violations
    /\ health_score' = ev.health_score
    /\ backpressure_active' = ev.backpressure_active
    /\ stab_timers' = ev.stab_timers
    /\ bp_counter' = ev.bp_counter
    /\ reduce_signals' = ev.reduce_signals

\* the collector's sleep after a collection that ended with result.  An
\* exception is caught inside _collect_current_metrics, so that the loop's
\* own handler, which would sleep longer, is never entered
CollectorSleepWithBackoff(result) ==
    [pc |-> "sleeping",
     wake |-> now + (IF result.kind = "error"
                     THEN ErrorInterval
                     ELSE CollectInterval)]

CollectorSleep(result) ==
    [pc |-> "sleeping", wake |-> now + CollectInterval]

\* the collector wakes and its first query, for the p95 response time,
\* is answered; an exception ends this collection
CollectResponseTime ==
    /\ collector.pc = "sleeping"
    /\ collector.wake = now
    /\ \E result \in QueryResults :
         LET ev == AfterQuery("response_time_p95", result) IN
         /\ WithinBounds(ev.slo_violations)
         /\ SetEvalState(ev)
         /\ collector' = IF result.kind = "error"
                         THEN CollectorSleep(result)
                         ELSE [pc |-> "query2", wake |-> now]
         /\ last' = Collected("response_time_p95", result)
    /\ UNCHANGED <<results, netem_added,
                   config, now, pc, main_wake, loop_start, sweep, pending_exc, k6,
                   active_faults, timers, net_timers, qdisc, fault_gauge>>

\* the second query, for the error rate, is answered and the collector
\* sleeps
CollectErrorRate ==
    /\ collector.pc = "query2"
    /\ \E result \in QueryResults :
         LET ev == AfterQuery("error_rate", result) IN
         /\ WithinBounds(ev.slo_violations)
         /\ SetEvalState(ev)
         /\ last' = Collected("error_rate", result)
         /\ collector' = CollectorSleep(result)
    /\ UNCHANGED <<results, netem_added,
                   config, now, pc, main_wake, loop_start, sweep, pending_exc, k6,
                   active_faults, timers, net_timers, qdisc, fault_gauge>>

(***************************************************************************)
(* The environment.                                                        *)
(***************************************************************************)
\* the k6 process ends on its own while the event loop is idle: its
\* script is over, or it crashed
K6Exits ==
    /\ pc \in {"chaos", "wait"}
    /\ Idle
    /\ k6 = "running"
    /\ k6' = "exited"
    /\ last' = Step("k6_exit", "", {})
    /\ UNCHANGED <<results, netem_added,
                   config, now, pc, main_wake, loop_start, sweep, pending_exc,
                   collector, active_faults, timers, net_timers, qdisc,
                   fault_gauge, slo_violations, health_score,
                   backpressure_active, stab_timers, bp_counter,
                   reduce_signals>>

\* no task is ready: the clock moves to the next deadline
Advance ==
    /\ pc \notin Terminal
    /\ pc # "start"
    /\ Idle
    /\ Deadlines # {}
    /\ now' = Min(Deadlines)
    /\ last' = Step("advance", "", {})
    /\ UNCHANGED <<results, netem_added,
                   config, pc, main_wake, loop_start, sweep, pending_exc, k6,
                   collector, active_faults, timers, net_timers, qdisc,
                   fault_gauge, slo_violations, health_score,
                   backpressure_active, stab_timers, bp_counter,
                   reduce_signals>>

Next ==
    \/ StartRun
    \/ SchedulerTick
    \/ ChaosLoopExit
    \/ WaitForCompletion
    \/ Interrupt
    \/ SweepWake
    \/ FaultExpiry
    \/ NetworkCleanup
    \/ Stabilization
    \/ CollectResponseTime
    \/ CollectErrorRate
    \/ K6Exits
    \/ Advance

Spec == Init /\ [][Next]_vars

LongRunSpec == LongInit /\ [][Next]_vars

DegradedSpec == DegradedInit /\ [][Next]_vars

RepeatSpec == RepeatInit /\ [][Next]_vars

InvalidSpec == InvalidInit /\ [][Next]_vars

SharedTypeSpec == SharedTypeInit /\ [][Next]_vars

\* the stabilization check alone, from the instants at which it is due
RecencySpec == RecencyInit /\ [][Stabilization]_vars

(***************************************************************************)
(* Properties.                                                             *)
(***************************************************************************)
Running == pc \in {"chaos", "wait"}

\* the pending expiry tasks of a fault name: its instances that were
\* injected and not yet cleaned up
Instances(name) == {t \in timers : t.name = name}

Occurrences(seq, x) == Cardinality({i \in DOMAIN seq : seq[i] = x})

\* C1: in every reachable state every fault name has at most one injected
\* instance that is not yet cleaned up, and at most one registry entry: a
\* scheduler tick never injects a fault whose name is still registered.
C1_OneInstancePerName ==
    \A n \in FaultNames :
        /\ Cardinality(Instances(n)) <= 1
        /\ Occurrences(active_faults, n) <= 1

\* a later tick has rolled "cpu" (probability 1) while it was still
\* registered from an earlier tick, and has not injected it again
C1_Witness ==
    /\ last.op = "tick"
    /\ ~backpressure_active
    /\ IsActive(active_faults, "cpu")
    /\ Instances("cpu") # {}
    /\ \A t \in Instances("cpu") :
          t.at < now + FaultByName("cpu").duration_seconds

\* C2: every fault instance that became active has been reverted and
\* removed from the registry when the run is over, also when the run was
\* shut down while the fault was active: no name is left registered and no
\* host effect is left in place.
C2_EveryFaultReverted ==
    pc \in Terminal => active_faults = <<>> /\ ~qdisc

\* C3: on every exit path of run_chaos_test the cleanup sweep has been
\* executed for the whole snapshot, the registry is empty and the load
\* generator no longer runs.
C3_SweepOnEveryExit ==
    pc \in Terminal =>
        /\ sweep = <<>>
        /\ \A n \in FaultNames : ~IsActive(active_faults, n)
        /\ k6 # "running"

\* C4: every backpressure activation episode sends exactly one
\* rate-reduction signal to the load generator, however many violations
\* are recorded while the state is Active.
C4_OneSignalPerEpisode ==
    reduce_signals = bp_counter.activated

\* the age of the youngest violation record
YoungestAge ==
    Min({now - slo_violations[i].timestamp : i \in DOMAIN slo_violations})

\* C5: while the run lasts, the state is never Active when no violation
\* was recorded for a full lookback window and one more cooldown: by then
\* a scheduled stabilization check has found the window clean and has gone
\* back to Normal.
C5_StabilizesAfterCleanWindow ==
    (Running /\ backpressure_active /\ slo_violations # <<>>)
        => YoungestAge <= Lookback + Cooldown

\* C6: in every state before shutdown in which the state is Active, a
\* stabilization check is pending.
C6_CheckPendingWhileActive ==
    (Running /\ backpressure_active) => stab_timers # {}

\* C7: the state changes from Active to Normal only in a stabilization
\* check that is due, at a time when no violation record has a timestamp
\* within the last 300 seconds (so at least one cooldown after the
\* activation, which records a violation).
C7_DeactivationOnlyWhenStable ==
    [][(backpressure_active /\ ~backpressure_active') =>
          /\ \E d \in stab_timers : d = now /\ d \notin stab_timers'
          /\ \A i \in DOMAIN slo_violations :
                now - slo_violations[i].timestamp >= Lookback]_vars

\* a stabilization check has run, has found a recent violation and has
\* left the state Active
C7_Witness ==
    /\ last.op = "stabilization"
    /\ backpressure_active
    /\ slo_violations # <<>>
    /\ YoungestAge < Lookback

\* C8: no step taken while the state is Active applies or registers a
\* fault.
C8_NoInjectionWhileActive ==
    [][backpressure_active =>
          /\ timers' \subseteq timers
          /\ net_timers' \subseteq net_timers
          /\ Range(active_faults') \subseteq Range(active_faults)
          /\ qdisc' => qdisc]_vars

\* a scheduler tick has run while the state was Active: it has rolled
\* "cpu" (probability 1), which was not registered, and has injected
\* nothing
C8_Witness ==
    /\ last.op = "tick"
    /\ backpressure_active
    /\ ~IsActive(active_faults, "cpu")
    /\ Instances("cpu") = {}

\* C9: while the state is Active and the run is not over, every registered
\* fault keeps its expiry task, which is not overdue, the clock does not
\* pass its deadline, and the fault leaves the registry only at that
\* deadline.
C9_ExpiryOnSchedule ==
    [][(backpressure_active /\ pc' \notin Terminal) =>
          \A n \in FaultNames :
              IsActive(active_faults, n) =>
                  \E t \in timers :
                      /\ t.name = n
                      /\ now <= t.at
                      /\ now' <= t.at
                      /\ IF IsActive(active_faults', n)
                         THEN t \in timers'
                         ELSE now = t.at]_vars

\* the expiry task of a fault has run while the state was Active and the
\* run was going on, and the fault is no longer registered
C9_Witness ==
    /\ last.op = "expiry"
    /\ backpressure_active
    /\ Running
    /\ ~IsActive(active_faults, last.name)
    /\ Instances(last.name) = {}

\* C10: after a scheduler tick, no fault whose applier failed in that tick
\* is registered and no expiry task is pending for it.
C10_FailedApplyNotRegistered ==
    last.op = "tick" =>
        \A n \in last.failed :
            /\ ~IsActive(active_faults, n)
            /\ Instances(n) = {}

\* C11: a failed revert does not keep a fault registered.  While the run
\* is not over, every registered name has its expiry task pending and not
\* overdue, and an expiry task that ends leaves its fault's name out of the
\* registry, whatever became of the revert of the fault's host effect.
C11_RemovedDespiteFailedRevert ==
    /\ [](pc \notin Terminal =>
             \A n \in Range(active_faults) :
                 \E t \in timers : t.name = n /\ t.at >= now)
    /\ [][\A t \in timers :
             (t \notin timers' /\ pc' \notin Terminal)
                 => ~IsActive(active_faults', t.name)]_vars

\* during the run the tc qdisc del of the network fault's cleanup task has
\* failed, the netem qdisc is still installed, and the fault's expiry task,
\* which ran at the same instant, has removed the fault from the registry
C11_Witness ==
    /\ last.op = "net_cleanup"
    /\ last.name = "tc_error"
    /\ Running
    /\ qdisc
    /\ ~IsActive(active_faults, "net")
    /\ Instances("net") = {}

\* the gate a violation record names
GateOf(record) ==
    CHOOSE slo \in Range(SloGates) : slo.name = record.slo_name

\* what the violation records of a sequence take off the health score: 20
\* for a record of a critical gate, 5 for any other
RECURSIVE TotalPenalty(_)
TotalPenalty(records) ==
    IF records = <<>>
    THEN 0
    ELSE (IF GateOf(Head(records)).severity = "critical" THEN 20 ELSE 5)
         + TotalPenalty(Tail(records))

\* the records a step appends to the violation list
Appended ==
    SubSeq(slo_violations', Len(slo_violations) + 1, Len(slo_violations'))

\* C12: in every reachable state the health score is between 0 and 100,
\* whatever the number and the severities of the recorded violations.
C12_HealthScoreInRange ==
    0 <= health_score /\ health_score <= 100

\* the recorded violations take more than 100 off the score, and the score
\* is 0
C12_Witness ==
    /\ last.op = "collect"
    /\ TotalPenalty(slo_violations) > 100
    /\ health_score = 0

\* C13: the health score starts at 100, and every step leaves the violation
\* list as it is or appends records to it and takes the score to what it
\* was less 20 for each appended record of a critical gate and 5 for each
\* other one, but not below 0: no step of any task increases it.
C13_HealthOnlyLoweredByViolations ==
    /\ health_score = 100
    /\ [][/\ Len(slo_violations') >= Len(slo_violations)
          /\ SubSeq(slo_violations', 1, Len(slo_violations)) = slo_violations
          /\ health_score' = Max2(0, health_score - TotalPenalty(Appended))
          /\ health_score' <= health_score]_vars

\* violations of critical and of other gates have taken the score to 0,
\* and a stabilization check that ran later has left it there
C13_Witness ==
    /\ last.op = "stabilization"
    /\ \E i \in DOMAIN slo_violations :
          GateOf(slo_violations[i]).severity = "critical"
    /\ \E i \in DOMAIN slo_violations :
          GateOf(slo_violations[i]).severity # "critical"
    /\ TotalPenalty(slo_violations) > 100
    /\ health_score = 0

\* C14: a query that the metrics backend does not answer (an error, a
\* non-200 or an empty answer) records no violation and leaves the health
\* score and the backpressure state alone, and the collector goes on: to
\* its second query, or to sleep until its next collection one interval
\* later.  While the run lasts the collector is never gone and never
\* sleeps longer than its interval.
C14_UnavailableMetricsSkipped ==
    /\ [](Running =>
             /\ collector.pc \in {"sleeping", "query2"}
             /\ collector.wake <= now + CollectInterval)
    /\ [][(last'.op = "collect" /\ last'.result.kind \in {"error", "nodata"})
            => /\ slo_violations' = slo_violations
               /\ health_score' = health_score
               /\ backpressure_active' = backpressure_active
               /\ bp_counter' = bp_counter
               /\ stab_timers' = stab_timers
               /\ \/ collector' = [pc |-> "query2", wake |-> now]
                  \/ collector' = [pc |-> "sleeping",
                                   wake |-> now + CollectInterval]]_vars

\* the third collection of a run has ended, its last query unanswered, and
\* nothing has been recorded so far
C14_Witness ==
    /\ last.op = "collect"
    /\ last.name = "error_rate"
    /\ last.result.kind = "nodata"
    /\ now = 2 * CollectInterval
    /\ Running
    /\ slo_violations = <<>>
    /\ health_score = 100
    /\ ~backpressure_active
    /\ collector = [pc |-> "sleeping", wake |-> now + CollectInterval]

\* the violation records of gates with backpressure_trigger set
TriggerRecords ==
    {i \in DOMAIN slo_violations :
        GateOf(slo_violations[i]).backpressure_trigger}

\* C15: when a collection ends in which two or more gates with
\* backpressure_trigger set were violated, and none was violated before
\* (the state was Normal when the collection began), the collection has
\* made exactly one transition to Active, has sent exactly one
\* rate-reduction signal and has appended one record for each of the
\* gates.
C15_OneActivationPerTick ==
    (/\ last.op = "collect"
     /\ last.name = "error_rate"
     /\ Cardinality(TriggerRecords) >= 2
     /\ \A i \in TriggerRecords : slo_violations[i].timestamp = now)
        => /\ backpressure_active
           /\ bp_counter.activated = 1
           /\ reduce_signals = 1
           /\ \A i, j \in TriggerRecords :
                 slo_violations[i].slo_name = slo_violations[j].slo_name
                     => i = j

\* operator(value, threshold), as the claim reads a gate
OperatorHolds(slo, value) ==
    CASE slo.operator = ">"  -> value > slo.threshold
      [] slo.operator = ">=" -> value >= slo.threshold
      [] slo.operator = "<"  -> value < slo.threshold
      [] slo.operator = "<=" -> value <= slo.threshold
      [] slo.operator = "==" -> value = slo.threshold

\* the gates a query answered with result for metric_name violates, in the
\* order of the configuration
ViolatedGates(metric_name, result) ==
    IF result.kind = "value"
    THEN SelectSeq(SloGates,
                   LAMBDA slo : /\ slo.metric = metric_name
                                /\ OperatorHolds(slo, result.value))
    ELSE <<>>

\* C16: violations are never deduplicated.  Every query of the collector
\* appends exactly one record, stamped with the time of the query, for each
\* gate on the queried metric whose operator the observed value satisfies,
\* and none for any other gate, and takes the penalty of each appended
\* record off the health score once, whether the state is Normal or
\* Active and whatever was recorded before.
C16_NoDeduplication ==
    [][last'.op = "collect" =>
          LET gates == ViolatedGates(last'.name, last'.result) IN
          /\ slo_violations' =
                 slo_violations \o
                 [i \in 1..Len(gates) |->
                     [timestamp |-> now, slo_name |-> gates[i].name]]
          /\ health_score' =
                 Max2(0, health_score - TotalPenalty(Appended))]_vars

\* a gate has been violated in a poll while the state was Active, having
\* been violated in the poll before already, and has got its second record
C16_Witness ==
    /\ last.op = "collect"
    /\ backpressure_active
    /\ \E i, j \in DOMAIN slo_violations :
          /\ i < j
          /\ j = Len(slo_violations)
          /\ slo_violations[i].slo_name = slo_violations[j].slo_name
          /\ slo_violations[i].timestamp < slo_violations[j].timestamp
          /\ slo_violations[j].timestamp = now
          /\ \E k \in TriggerRecords : slo_violations[k].timestamp < now

\* C17: once the main task has begun the cleanup, no expiry task is
\* pending and no fault is registered: the sweep has cancelled the timers
\* and has deregistered every fault at once, without a wait.
C17_SweepIsImmediate ==
    (pc = "sweep" \/ pc \in Terminal)
        => /\ active_faults = <<>>
           /\ timers = {}
           /\ net_timers = {}

\* the run has ended without an exception out of its loops or its cleanup:
\* run_chaos_test has gone on to assemble its results
Completed == pc \in {"done", "results_failed"}

\* C18: the step that ends a run assembles a summary whose
\* total_faults_injected counts every injection of the run that succeeded,
\* the expired ones too; so it counts at least the faults that were still
\* registered when that step began.
C18_TotalCountsInjections ==
    [][(pc \notin Terminal /\ Completed')
          => /\ results'.produced
             /\ results'.total_faults_injected >= Len(active_faults)]_vars

\* C19: the summary of a run that has ended gives the number of Normal to
\* Active transitions of the run as its backpressure activations, the
\* number of violation records as its violations and the health score at
\* the end of the run as its final health score.
C19_SummaryMatchesRun ==
    Completed
        => /\ results.produced
           /\ results.backpressure_activations = bp_counter.activated
           /\ results.slo_violations = Len(slo_violations)
           /\ results.system_health_score = health_score

\* C20: a run that no forced shutdown and no failure to start the load
\* generator has ended, whatever appliers and metrics queries failed in
\* it, has reached its end and has produced a summary.
C20_SummaryAlwaysProduced ==
    (pc \in Terminal /\ ~pending_exc) => results.produced

\* C21: a failure of the load generator does not abort the run.  When it
\* could not be started, the run has gone on all the same: the collector
\* was started, and the main task is in its loops or has ended them
\* without raising what the failed start raised.
C21_LoadFailureDoesNotAbort ==
    (k6 = "none" /\ pc # "start")
        => /\ collector.pc # "none"
           /\ ~pending_exc
           /\ pc # "raised"

\* a fault definition as the specification wants it: a probability within
\* [0, 1] and a positive duration
WellFormedFault(fault) ==
    /\ fault.probability >= 0
    /\ fault.probability <= 100
    /\ fault.duration_seconds > 0

\* C22: a run whose configuration holds a fault definition with a
\* probability outside [0, 1] or a duration of 0 seconds or less never
\* starts: the load generator and the collector are not started, no fault
\* is injected and no expiry task is created.
C22_InvalidConfigRejected ==
    (\E i \in DOMAIN Faults : ~WellFormedFault(Faults[i]))
        => /\ pc = "start"
           /\ k6 = "none"
           /\ collector.pc = "none"
           /\ active_faults = <<>>
           /\ timers = {}
           /\ net_timers = {}
           /\ ~qdisc

\* C23: the main task is in its loops only until the configured duration
\* has passed since the start of the run (at time 0) or the load generator
\* has ended, whichever comes first: the clock of a run that is in its
\* loops never shows more than the duration, and no scheduler tick that
\* runs after the load generator has ended injects a fault.
C23_RunEndsOnTime ==
    /\ [](Running => now <= TestDuration)
    /\ [][(k6 = "exited" /\ last'.op = "tick")
             => /\ timers' \subseteq timers
                /\ net_timers' \subseteq net_timers
                /\ active_faults' = active_faults]_vars

C25_ActivationIsAtomic ==
    [][(~backpressure_active /\ backpressure_active')
          => /\ reduce_signals' = reduce_signals + 1
             /\ (now + Cooldown) \in stab_timers'
             /\ bp_counter'.activated = bp_counter.activated + 1]_vars

\* a gate among gates has backpressure_trigger set
HasTrigger(gates) ==
    \E i \in DOMAIN gates : gates[i].backpressure_trigger

\* C26: the state goes from Normal to Active in a step exactly when the
\* step is a query of the collector, taken while the state is Normal, whose
\* value violates a gate with backpressure_trigger set; a query that
\* violates only gates without it leaves the state Normal, and no step
\* other than a query of the collector or a stabilization check changes
\* the state: no scheduler tick, no expiry task, no step of the cleanup.
C26_OnlyEvaluatorActivates ==
    [][/\ (~backpressure_active /\ backpressure_active')
            <=> /\ ~backpressure_active
                /\ last'.op = "collect"
                /\ HasTrigger(ViolatedGates(last'.name, last'.result))
       /\ backpressure_active' # backpressure_active
            => last'.op \in {"collect", "stabilization"}
       /\ last'.op \in {"tick", "expiry", "net_cleanup", "sweep", "wait",
                        "interrupt", "loop_exit", "start_failed"}
            => backpressure_active' = backpressure_active]_vars

\* in one collection the response time has violated only the gate without
\* backpressure_trigger, which has left the state Normal, and then the
\* error rate has violated a gate with it, which has made the state Active
C26_Witness ==
    /\ last.op = "collect"
    /\ last.name = "error_rate"
    /\ backpressure_active
    /\ bp_counter.activated = 1
    /\ Len(slo_violations) = 2
    /\ ~GateOf(slo_violations[1]).backpressure_trigger
    /\ GateOf(slo_violations[2]).backpressure_trigger

\* the step runs _cleanup to its end, past the tc qdisc del that follows
\* the sweep
EndsCleanup ==
    /\ pc \notin Terminal
    /\ pc' \in {"done", "raised", "results_failed"}

\* C27: an apply comes before its revert.  Every step that issues a
\* tc qdisc del, the cleanup task of a network fault when it wakes and
\* _cleanup when its sweep is over, is taken when a tc qdisc add has
\* succeeded before in the run.
C27_ApplyBeforeRevert ==
    [][(last'.op = "net_cleanup" \/ EndsCleanup) => netem_added]_vars

\* C28: _inject_fault guards the registry itself.  In every reachable
\* state, called for a fault whose name is registered, whatever its applier
\* would do, it fails and leaves the host, the registry and the expiry
\* tasks as they are.
C28_InjectFaultGuardsItself ==
    \A n \in Range(active_faults) :
        \A outcome \in OutcomesOf(FaultByName(n)) :
            LET st == InjectFault(TickState, FaultByName(n), outcome) IN
            /\ n \in st.failed
            /\ st.active_faults = active_faults
            /\ st.timers = timers
            /\ st.net_timers = net_timers
            /\ st.qdisc = qdisc

C30_RegisteredIffOneTimer ==
    /\ [](Running =>
             \A n \in FaultNames :
                 /\ IsActive(active_faults, n)
                        <=> Cardinality(Instances(n)) = 1
                 /\ ~IsActive(active_faults, n) => Instances(n) = {})
    /\ [][\A t \in timers' \ timers :
             /\ ~IsActive(active_faults, t.name)
             /\ IsActive(active_faults', t.name)
             /\ t.at = now + FaultByName(t.name).duration_seconds]_vars
    /\ [][(Running /\ last'.op = "expiry")
             => \E t \in timers :
                   /\ t.name = last'.name
                   /\ t.at = now
                   /\ timers' = timers \ {t}
                   /\ Instances(t.name) = {t}
                   /\ IsActive(active_faults, t.name)
                   /\ ~IsActive(active_faults', t.name)]_vars

\* the expiry task of a fault that was injected again after its first
\* instance had expired has ended in the run's loops, and has taken the
\* second instance off the registry
C30_Witness ==
    /\ Running
    /\ last.op = "expiry"
    /\ last.name = "net"
    /\ now > 2 * FaultByName("net").duration_seconds
    /\ ~IsActive(active_faults, "net")
    /\ Instances("net") = {}

\* the registered faults of a type
ActiveOfType(type) ==
    {n \in Range(active_faults) : FaultByName(n).fault_type = type}

\* C31: while the run is in its loops, the gauge of a fault type is 1 if a
\* fault of the type is registered and 0 if none is, also when several
\* faults have the type.
C31_GaugeMatchesRegistry ==
    Running =>
        \A type \in FaultTypes :
            fault_gauge[type] = IF ActiveOfType(type) # {} THEN 1 ELSE 0

\* C32: in every reachable state at most one stabilization check is
\* pending, and one is pending only while the state is Active.
C32_OneCheckWhileActive ==
    /\ Cardinality(stab_timers) <= 1
    /\ stab_timers # {} => backpressure_active

\* a gate with backpressure_trigger set has been violated while the state
\* was Active, one poll after the violation that activated it, and the
\* check of the activation is the only one pending
C32_Witness ==
    /\ last.op = "collect"
    /\ backpressure_active
    /\ \E i, j \in TriggerRecords :
          /\ slo_violations[i].timestamp < slo_violations[j].timestamp
          /\ slo_violations[j].timestamp = now
          /\ stab_timers = {slo_violations[i].timestamp + Cooldown}

\* C33: once the cleanup has begun, the evaluator records nothing.  While
\* the main task is in the sweep the collector is not running, and no step
\* taken in the sweep or after it, of the stabilization task, of an expiry
\* task or of the sweep itself, changes the violation list, the health
\* score or the count of activations.
C33_NothingRecordedInSweep ==
    /\ [](pc = "sweep" => collector.pc = "cancelled")
    /\ [][(pc = "sweep" \/ pc \in Terminal)
             => /\ slo_violations' = slo_violations
                /\ health_score' = health_score
                /\ bp_counter'.activated = bp_counter.activated
                /\ backpressure_active' = backpressure_active]_vars

\* the sweep is waiting on a fault, a collection of the collector would
\* have been due since the sweep began, and the stabilization check of an
\* activation has just run: what the evaluator recorded is as it was
C33_Witness ==
    /\ pc = "sweep"
    /\ last.op = "stabilization"
    /\ collector.pc = "cancelled"
    /\ main_wake - FaultByName(Head(sweep)).duration_seconds
           + CollectInterval <= now
    /\ slo_violations # <<>>
    /\ backpressure_active

\* the number of records of critical gates in records
CountCritical(records) ==
    Cardinality({i \in DOMAIN records :
                    GateOf(records[i]).severity = "critical"})

\* the health score after the violations of records, recorded one by one
\* in the order of the sequence, from the given score
RECURSIVE ScoreAfter(_, _)
ScoreAfter(score, records) ==
    IF records = <<>>
    THEN score
    ELSE ScoreAfter(HealthAfter(score, GateOf(Head(records)).severity),
                    Tail(records))

Reverse(seq) == [i \in 1..Len(seq) |-> seq[Len(seq) + 1 - i]]

\* C34: in every reachable state the health score is 100 less 20 for each
\* recorded violation of a critical gate and 5 for each other one, but not
\* less than 0; and recording the same violations in the opposite order
\* gives the same score.
C34_HealthIsClosedForm ==
    LET c == CountCritical(slo_violations)
        w == Len(slo_violations) - c
        closed == Max2(0, 100 - 20 * c - 5 * w)
    IN  /\ health_score = closed
        /\ ScoreAfter(100, Reverse(slo_violations)) = closed

\* five violations of critical gates have taken the score to 0 and a
\* violation of another gate, recorded after them, has left it there
C34_Witness ==
    /\ last.op = "collect"
    /\ CountCritical(slo_violations) = 5
    /\ Len(slo_violations) = 6
    /\ GateOf(slo_violations[Len(slo_violations)]).severity = "warning"
    /\ health_score = 0

\* the stabilization check counts the record as a recent violation: the
\* check fails on a list that holds this record only
CountedAsRecent(record) == ~CheckSloStabilization(<<record>>)

\* C35: when the stabilization check has run, the records it counted as
\* recent are those whose age, now less the timestamp, is less than 300
\* seconds; it counted no record that is more than a day old.
C35_RecentIffYoungerThanLookback ==
    last.op = "stabilization" =>
        \A i \in DOMAIN slo_violations :
            CountedAsRecent(slo_violations[i])
                <=> now - slo_violations[i].timestamp < Lookback

====
